---- MODULE Spec2Model ----
(***************************************************************************)
(* Booking-Service: seat holds, bookings, payments and the theatre-service *)
(* seat counter, modelled from src/services, src/models and src/routers.   *)
(*                                                                         *)
(* db       is the committed content of the three tables.                  *)
(* sess  is what the shared SQLAlchemy session sees: db plus the changes   *)
(*       that were flushed but not yet committed or rolled back.           *)
(* Every service method is one atomic step, except create_booking, which   *)
(* is split between its availability check and its inserts so that two     *)
(* requests served by different worker threads can interleave.             *)
(***************************************************************************)
EXTENDS Integers, Sequences, FiniteSets, Bags, TLC

VARIABLES db, sess, clock, remote, inflight, steps, tasks, events, confirming

vars == <<db, sess, clock, remote, inflight, steps, tasks, events, confirming>>

-----------------------------------------------------------------------------
(* Bounds of the model *)

MaxBookings == 2
MaxPayments == 1
MaxSeatRecords == 3
NumCols == 2
NumWorkers == 2
MaxClock == 11
MaxNet == 2
MaxSteps == 6

(* Program constants *)

HoldDurationMinutes == 10
MaxSeatsPerBooking == 10
NoPayment == 0
MockPaymentBase == 999000

Showtimes == {1}
Rows == {"A"}
SeatPositions == [row : Rows, col : 1..NumCols]
NoSeat == [row |-> "-", col |-> 0]
TickSteps == {11}
ExtendMinutes == {5}

HttpOutcomes == {"ok", "error", "unreachable"}
GetOutcomes == HttpOutcomes \cup {"notfound"}

(* Requests: one or two seats, in either order, duplicates included *)
SeatRequests ==
  {<<p>> : p \in SeatPositions} \cup {<<p, q>> : p \in SeatPositions, q \in SeatPositions}

(* The request of the too-many-seats test: eleven different seats of a row *)
TooManySeats == [k \in 1..(MaxSeatsPerBooking + 1) |-> [row |-> "A", col |-> k]]

CreateInputs == SeatRequests \cup {TooManySeats}

-----------------------------------------------------------------------------
(* Generic helpers *)

Range(f) == {f[i] : i \in DOMAIN f}

EmptyTables == [bookings |-> <<>>, seats |-> <<>>, payments |-> <<>>]

NoPost == [made |-> FALSE, showtime_id |-> 0, count |-> 0, outcome |-> "none"]
MkPost(showtime_id, count, http) ==
  [made |-> TRUE, showtime_id |-> showtime_id, count |-> count, outcome |-> http]

(* The result of a service call: the two table states, the theatre counter,
   the returned (success, message) pair and the POST it sent, if any *)
Res(d, s, r, ok, msg, seat, post) ==
  [db |-> d, sess |-> s, remote |-> r, ok |-> ok, msg |-> msg, seat |-> seat, post |-> post]

(* db.session.commit(): the flushed changes become the committed state *)
Commit(s) == s

(* db.session.rollback(): the session goes back to the committed state *)
Rollback(d) == d

(* POST /showtimes/{id}/seats {count}: the theatre service applies the count
   only when it answers below 400 *)
TheatrePost(r, showtime_id, count, http) ==
  IF http = "ok" THEN [r EXCEPT ![showtime_id] = @ + count] ELSE r

-----------------------------------------------------------------------------
(* models/booked_seat.py *)

(* A seat record whose hold ends the moment it is created: what C4 excludes *)
NewBookedSeatNoHold(booking_id, showtime_id, seat, now) ==
  [booking_id |-> booking_id, showtime_id |-> showtime_id,
   seat_row |-> seat.row, seat_col |-> seat.col,
   status |-> "on_hold", hold_expiry_time |-> now,
   is_deleted |-> FALSE]

NewBookedSeat(booking_id, showtime_id, seat, now) ==
  [booking_id |-> booking_id, showtime_id |-> showtime_id,
   seat_row |-> seat.row, seat_col |-> seat.col,
   status |-> "on_hold", hold_expiry_time |-> now + HoldDurationMinutes,
   is_deleted |-> FALSE]

(* A hold that counts as expired only a full hold duration after its expiry
   time: what C20 excludes *)
IsHoldExpiredLate(seat, now) ==
  seat.status = "on_hold" /\ now > seat.hold_expiry_time + HoldDurationMinutes

IsHoldExpired(seat, now) ==
  seat.status = "on_hold" /\ now > seat.hold_expiry_time

SoftDelete(row) == [row EXCEPT !.is_deleted = TRUE]

SeatConfirm(seat, now) ==
  [seat EXCEPT !.status = "booked", !.hold_expiry_time = now]

SeatRelease(seat) ==
  SoftDelete([seat EXCEPT !.status = "released"])

SeatExtendHoldFromExpiry(seat, now, minutes) ==
  IF seat.status = "on_hold"
  THEN [seat EXCEPT !.hold_expiry_time = @ + minutes]
  ELSE seat

SeatExtendHold(seat, now, minutes) ==
  IF seat.status = "on_hold"
  THEN [seat EXCEPT !.hold_expiry_time = now + minutes]
  ELSE seat

(* models/booking.py, models/payment.py *)

NewBooking(showtime_id) ==
  [showtime_id |-> showtime_id, payment_id |-> NoPayment,
   status |-> "pending", is_deleted |-> FALSE]

NewPayment == [status |-> "pending", is_deleted |-> FALSE]

(* booking.booked_seats.filter_by(is_deleted=False) *)
SeatsOf(s, booking_id) ==
  {i \in DOMAIN s.seats :
     s.seats[i].booking_id = booking_id /\ ~s.seats[i].is_deleted}

ReleaseSeats(s, ids) ==
  [s EXCEPT !.seats = [i \in DOMAIN s.seats |->
                         IF i \in ids THEN SeatRelease(s.seats[i]) ELSE s.seats[i]]]

(* A cancel that leaves the seats of the booking alone: what C9 excludes *)
BookingCancelKeepsSeats(s, b) ==
  [s EXCEPT !.bookings[b].status = "cancelled"]

(* Booking.cancel(): status cancelled, every non-deleted seat released *)
BookingCancel(s, b) ==
  ReleaseSeats([s EXCEPT !.bookings[b].status = "cancelled"], SeatsOf(s, b))

-----------------------------------------------------------------------------
(* schemas.py: BookingCreate, 1..10 seats, no (row, col) listed twice *)

ValidateSeatsNoMax(seats) ==
  /\ Len(seats) >= 1
  /\ Cardinality(Range(seats)) = Len(seats)

ValidateSeatsNoUnique(seats) ==
  /\ Len(seats) >= 1
  /\ Len(seats) <= MaxSeatsPerBooking

ValidateSeats(seats) ==
  /\ Len(seats) >= 1
  /\ Len(seats) <= MaxSeatsPerBooking
  /\ Cardinality(Range(seats)) = Len(seats)

-----------------------------------------------------------------------------
(* services/seat_service.py *)

(* The non-deleted on_hold or booked records of one seat of a showtime *)
ExistingSeats(s, showtime_id, seat) ==
  {i \in DOMAIN s.seats :
     /\ s.seats[i].showtime_id = showtime_id
     /\ s.seats[i].seat_row = seat.row
     /\ s.seats[i].seat_col = seat.col
     /\ ~s.seats[i].is_deleted
     /\ s.seats[i].status \in {"on_hold", "booked"}}

RECURSIVE CheckSeatsAvailability(_, _, _, _, _)
(* The possible outcomes of check_seats_availability: for each seat in turn
   the query's .first() record (any of the matching records, the query has no
   ORDER BY) is released and committed when its hold expired, and otherwise
   ends the check with a conflict naming the seat *)
CheckSeatsAvailability(d, s, showtime_id, seats, now) ==
  IF seats = <<>>
  THEN {[db |-> d, sess |-> s, ok |-> TRUE, seat |-> NoSeat]}
  ELSE LET seat == Head(seats)
           existing == ExistingSeats(s, showtime_id, seat)
       IN IF existing = {}
          THEN CheckSeatsAvailability(d, s, showtime_id, Tail(seats), now)
          ELSE UNION {
                 IF IsHoldExpired(s.seats[i], now)
                 THEN LET s1 == ReleaseSeats(s, {i})
                      IN CheckSeatsAvailability(Commit(s1), s1, showtime_id, Tail(seats), now)
                 ELSE {[db |-> d, sess |-> s, ok |-> FALSE, seat |-> seat]}
                 : i \in existing}

-----------------------------------------------------------------------------
(* State *)

Init ==
  /\ db = EmptyTables
  /\ sess = EmptyTables
  /\ clock = 0
  /\ remote = [s \in Showtimes |-> 0]
  /\ inflight = EmptyBag
  /\ steps = 0
  /\ tasks = {}
  /\ events = {}
  /\ confirming = EmptyBag

(* Every request served counts against the length of the run *)
Step == steps < MaxSteps /\ steps' = steps + 1

(* The create requests that passed the availability check and have not
   inserted yet, one per busy worker thread *)
Request(showtime_id, seats) == [showtime_id |-> showtime_id, seats |-> seats]

RECURSIVE SumLen(_)
SumLen(B) ==
  IF B = EmptyBag THEN 0
  ELSE LET q == CHOOSE x \in BagToSet(B) : TRUE
       IN Len(q.seats) + SumLen(B (-) SetToBag({q}))

(* The seat records the requests in flight are about to insert *)
Reserved == SumLen(inflight)

Quiescent == inflight = EmptyBag

-----------------------------------------------------------------------------
(* services/booking_service.py: create_booking, behind the create endpoint *)

(* What the endpoint answers before any insert: "" when the request goes on *)
CreateRejection(seats, http) ==
  IF ~ValidateSeats(seats) THEN "validation"
  ELSE IF http = "unreachable" THEN "theatre_unavailable"
  ELSE IF http = "notfound" THEN "showtime_not_found"
  ELSE IF http # "ok" THEN "theatre_error"
  ELSE ""

(* Request validation, GET /showtimes/{id}, then the availability check *)
CreateCheck(showtime_id, seats, http) ==
  /\ Step
  /\ UNCHANGED <<clock, remote, tasks, events, confirming>>
  /\ IF CreateRejection(seats, http) # ""
     THEN UNCHANGED <<db, sess, inflight>>
     ELSE \E o \in CheckSeatsAvailability(db, sess, showtime_id, seats, clock) :
            /\ db' = o.db
            /\ sess' = o.sess
            /\ IF o.ok
               THEN /\ BagCardinality(inflight) < NumWorkers
                    /\ Len(sess.bookings) + BagCardinality(inflight) < MaxBookings
                    /\ Len(sess.seats) + Len(seats) + Reserved <= MaxSeatRecords
                    /\ inflight' = inflight (+) SetToBag({Request(showtime_id, seats)})
               ELSE UNCHANGED inflight

(* The booking and its seat holds, inserted and committed together *)
InsertBooking(s, showtime_id, seats, now) ==
  LET b == Len(s.bookings) + 1
  IN [s EXCEPT !.bookings = Append(@, NewBooking(showtime_id)),
               !.seats = @ \o [k \in 1..Len(seats) |->
                                 NewBookedSeat(b, showtime_id, seats[k], now)]]

(* The inserts and the commit of create_booking; the create endpoint then
   schedules the payment simulation of the new booking *)
CreateInsert(q) ==
  /\ BagIn(q, inflight)
  /\ LET s1 == InsertBooking(sess, q.showtime_id, q.seats, clock)
     IN /\ db' = Commit(s1)
        /\ sess' = s1
  /\ inflight' = inflight (-) SetToBag({q})
  /\ tasks' = tasks \cup {Len(sess.bookings) + 1}
  /\ Step
  /\ UNCHANGED <<clock, remote, events, confirming>>

(* An exception after the booking was flushed commits both the booking and
   what the session holds *)
InsertFailedKeepsBooking(d, s, showtime_id) ==
  LET s1 == [s EXCEPT !.bookings = Append(@, NewBooking(showtime_id))]
  IN [db |-> Commit(s1), sess |-> s1]

(* An exception while the booking or a seat is inserted: the except branch
   rolls the session back, the flushed booking included *)
InsertFailed(d, s, showtime_id) ==
  LET s1 == [s EXCEPT !.bookings = Append(@, NewBooking(showtime_id))]
  IN [db |-> d, sess |-> Rollback(d)]

CreateInsertFails(q) ==
  /\ BagIn(q, inflight)
  /\ LET o == InsertFailed(db, sess, q.showtime_id)
     IN /\ db' = o.db
        /\ sess' = o.sess
  /\ inflight' = inflight (-) SetToBag({q})
  /\ Step
  /\ UNCHANGED <<clock, remote, tasks, events, confirming>>

Tick(d) ==
  /\ clock + d <= MaxClock
  /\ clock' = clock + d
  /\ Step
  /\ UNCHANGED <<db, sess, remote, inflight, tasks, events, confirming>>

-----------------------------------------------------------------------------
(* services/payment_service.py: get_payment, refund_payment *)

(* PaymentService.get_payment(payment_id) found a non-deleted payment *)
GetPayment(s, payment_id) ==
  payment_id \in DOMAIN s.payments /\ ~s.payments[payment_id].is_deleted

(* A refund that does not look at the payment's status: what C17 excludes *)
RefundPaymentAnyStatus(d, s, r, payment_id) ==
  IF ~GetPayment(s, payment_id)
  THEN Res(d, s, r, FALSE, "payment_not_found", NoSeat, NoPost)
  ELSE LET s1 == [s EXCEPT !.payments[payment_id].status = "refunded"]
       IN Res(Commit(s1), s1, r, TRUE, "ok", NoSeat, NoPost)

RefundPayment(d, s, r, payment_id) ==
  IF ~GetPayment(s, payment_id)
  THEN Res(d, s, r, FALSE, "payment_not_found", NoSeat, NoPost)
  ELSE IF s.payments[payment_id].status # "completed"
  THEN Res(d, s, r, FALSE, "not_refundable", NoSeat, NoPost)
  ELSE LET s1 == [s EXCEPT !.payments[payment_id].status = "refunded"]
       IN Res(Commit(s1), s1, r, TRUE, "ok", NoSeat, NoPost)

-----------------------------------------------------------------------------
(* services/booking_service.py *)

(* BookingService.get_booking(booking_id) found a non-deleted booking *)
GetBooking(s, b) ==
  b \in DOMAIN s.bookings /\ ~s.bookings[b].is_deleted

(* A payment check that accepts any payment it finds: what C5 excludes *)
PaymentVerifiedAnyStatus(s, payment_id) ==
  GetPayment(s, payment_id)

(* confirm_booking's payment check *)
PaymentVerified(s, payment_id) ==
  GetPayment(s, payment_id) /\ s.payments[payment_id].status = "completed"

(* confirm_booking after the increment was accepted *)
ConfirmLocally(s, b, payment_id, now) ==
  LET seats == SeatsOf(s, b)
  IN [s EXCEPT !.bookings[b].payment_id = payment_id,
               !.bookings[b].status = "confirmed",
               !.seats = [i \in DOMAIN s.seats |->
                            IF i \in seats THEN SeatConfirm(s.seats[i], now)
                            ELSE s.seats[i]]]

(* The writes of confirm_booking on the objects it loaded before the
   increment: the booking and the seats that were non-deleted then *)
ConfirmWrite(s, b, payment_id, seats, now) ==
  [s EXCEPT !.bookings[b].payment_id = payment_id,
            !.bookings[b].status = "confirmed",
            !.seats = [i \in DOMAIN s.seats |->
                         IF i \in seats THEN SeatConfirm(s.seats[i], now)
                         ELSE s.seats[i]]]

HttpError(http) ==
  IF http = "unreachable" THEN "theatre_unavailable" ELSE "theatre_error"

(* An increment whose answer is not looked at: what C6 excludes *)
ConfirmAnsweredUnchecked(d, s, r, b, payment_id, http, now, post) ==
  LET s1 == ConfirmLocally(s, b, payment_id, now)
  IN Res(Commit(s1), s1, TheatrePost(r, post.showtime_id, post.count, http),
         TRUE, "ok", NoSeat, post)

(* confirm_booking once the increment was sent: rollback and failure when it
   raised or was answered >= 400, else the local confirm and the commit *)
ConfirmAnswered(d, s, r, b, payment_id, http, now, post) ==
  IF http # "ok"
  THEN Res(d, Rollback(d), r, FALSE, HttpError(http), NoSeat, post)
  ELSE LET s1 == ConfirmLocally(s, b, payment_id, now)
       IN Res(Commit(s1), s1, TheatrePost(r, post.showtime_id, post.count, http),
              TRUE, "ok", NoSeat, post)

(* A confirm that does not look at the booking's status: what C11 excludes *)
ConfirmBookingAnyState(d, s, r, b, payment_id, http, now) ==
  IF ~GetBooking(s, b)
  THEN Res(d, s, r, FALSE, "booking_not_found", NoSeat, NoPost)
  ELSE IF ~PaymentVerified(s, payment_id)
  THEN Res(d, s, r, FALSE, "payment_not_completed", NoSeat, NoPost)
  ELSE ConfirmAnswered(d, s, r, b, payment_id, http, now,
                       MkPost(s.bookings[b].showtime_id,
                              Cardinality(SeatsOf(s, b)), http))

ConfirmBooking(d, s, r, b, payment_id, http, now) ==
  IF ~GetBooking(s, b)
  THEN Res(d, s, r, FALSE, "booking_not_found", NoSeat, NoPost)
  ELSE IF s.bookings[b].status # "pending"
  THEN Res(d, s, r, FALSE, "invalid_state", NoSeat, NoPost)
  ELSE IF ~PaymentVerified(s, payment_id)
  THEN Res(d, s, r, FALSE, "payment_not_completed", NoSeat, NoPost)
  ELSE LET num_seats == Cardinality(SeatsOf(s, b))
       IN ConfirmAnswered(d, s, r, b, payment_id, http, now,
                          MkPost(s.bookings[b].showtime_id, num_seats, http))

(* The count cancel, fail and delete send to the theatre service *)
DecrementCount(s, b) == 0 - Cardinality(SeatsOf(s, b))

CancelBooking(d, s, r, b, http) ==
  IF ~GetBooking(s, b)
  THEN Res(d, s, r, FALSE, "booking_not_found", NoSeat, NoPost)
  ELSE IF s.bookings[b].status = "cancelled"
  THEN Res(d, s, r, FALSE, "already_cancelled", NoSeat, NoPost)
  ELSE LET post == MkPost(s.bookings[b].showtime_id, DecrementCount(s, b), http)
           s1 == BookingCancel(s, b)
           r1 == TheatrePost(r, post.showtime_id, post.count, http)
           rf == IF s1.bookings[b].payment_id # NoPayment
                 THEN RefundPayment(d, s1, r1, s1.bookings[b].payment_id)
                 ELSE Res(d, s1, r1, TRUE, "ok", NoSeat, NoPost)
       IN Res(Commit(rf.sess), rf.sess, r1, TRUE, "ok", NoSeat, post)

FailBooking(d, s, r, b, http) ==
  IF ~GetBooking(s, b)
  THEN Res(d, s, r, FALSE, "booking_not_found", NoSeat, NoPost)
  ELSE IF s.bookings[b].status = "failed"
  THEN Res(d, s, r, FALSE, "already_failed", NoSeat, NoPost)
  ELSE LET post == MkPost(s.bookings[b].showtime_id, DecrementCount(s, b), http)
           s1 == ReleaseSeats([s EXCEPT !.bookings[b].status = "failed"], SeatsOf(s, b))
       IN Res(Commit(s1), s1, TheatrePost(r, post.showtime_id, post.count, http),
              TRUE, "ok", NoSeat, post)

(* The seats the sweep's query selects *)
ExpiredSeats(s, now) ==
  {i \in DOMAIN s.seats :
     /\ s.seats[i].status = "on_hold"
     /\ s.seats[i].hold_expiry_time < now
     /\ ~s.seats[i].is_deleted}

ReleaseExpiredHoldsKeepsBooking(d, s, r, now) ==
  LET s1 == ReleaseSeats(s, ExpiredSeats(s, now))
  IN Res(Commit(s1), s1, r, TRUE, "ok", NoSeat, NoPost)

ReleaseExpiredHolds(d, s, r, now) ==
  LET expired == ExpiredSeats(s, now)
      booking_ids == {s.seats[i].booking_id : i \in expired}
      s1 == ReleaseSeats(s, expired)
      pending == {b \in booking_ids : s1.bookings[b].status = "pending"}
      s2 == ReleaseSeats(
              [s1 EXCEPT !.bookings = [b \in DOMAIN s1.bookings |->
                                         IF b \in pending
                                         THEN [s1.bookings[b] EXCEPT !.status = "cancelled"]
                                         ELSE s1.bookings[b]]],
              UNION {SeatsOf(s1, b) : b \in pending})
  IN Res(Commit(s2), s2, r, TRUE, "ok", NoSeat, NoPost)

ValidBookingStatuses == {"pending", "confirmed", "cancelled", "failed"}

(* update_booking; status "" and payment_id NoPayment stand for None *)
UpdateBooking(d, s, r, b, status, payment_id, http, now) ==
  IF ~GetBooking(s, b)
  THEN Res(d, s, r, FALSE, "booking_not_found", NoSeat, NoPost)
  ELSE IF payment_id # NoPayment /\ payment_id \notin DOMAIN s.payments
  THEN (* the flush violates the foreign key on payments: except branch *)
       Res(d, Rollback(d), r, FALSE, "exception", NoSeat, NoPost)
  ELSE LET s1 == IF payment_id # NoPayment
                 THEN [s EXCEPT !.bookings[b].payment_id = payment_id]
                 ELSE s
           cur == s1.bookings[b].status
       IN IF status = ""
          THEN Res(Commit(s1), s1, r, TRUE, "ok", NoSeat, NoPost)
          ELSE IF status \notin ValidBookingStatuses
          THEN Res(d, s1, r, FALSE, "invalid_status", NoSeat, NoPost)
          ELSE IF status = "confirmed" /\ cur # "confirmed"
          THEN IF s1.bookings[b].payment_id = NoPayment
               THEN Res(d, s1, r, FALSE, "no_payment_id", NoSeat, NoPost)
               ELSE ConfirmBooking(d, s1, r, b, s1.bookings[b].payment_id, http, now)
          ELSE IF status = "failed" /\ cur # "failed"
          THEN FailBooking(d, s1, r, b, http)
          ELSE IF status = "cancelled" /\ cur # "cancelled"
          THEN CancelBooking(d, s1, r, b, http)
          ELSE LET s2 == [s1 EXCEPT !.bookings[b].status = status]
               IN Res(Commit(s2), s2, r, TRUE, "ok", NoSeat, NoPost)

DeleteBookingCancels(d, s, r, b, http) ==
  IF b \notin DOMAIN s.bookings
  THEN Res(d, s, r, FALSE, "booking_not_found", NoSeat, NoPost)
  ELSE IF s.bookings[b].is_deleted
  THEN Res(d, s, r, FALSE, "already_deleted", NoSeat, NoPost)
  ELSE LET post == MkPost(s.bookings[b].showtime_id, DecrementCount(s, b), http)
           s1 == ReleaseSeats([s EXCEPT !.bookings[b] =
                                 SoftDelete([@ EXCEPT !.status = "cancelled"])],
                              SeatsOf(s, b))
       IN Res(Commit(s1), s1, TheatrePost(r, post.showtime_id, post.count, http),
              TRUE, "ok", NoSeat, post)

DeleteBooking(d, s, r, b, http) ==
  IF b \notin DOMAIN s.bookings
  THEN Res(d, s, r, FALSE, "booking_not_found", NoSeat, NoPost)
  ELSE IF s.bookings[b].is_deleted
  THEN Res(d, s, r, FALSE, "already_deleted", NoSeat, NoPost)
  ELSE LET post == MkPost(s.bookings[b].showtime_id, DecrementCount(s, b), http)
           s1 == ReleaseSeats([s EXCEPT !.bookings[b] = SoftDelete(@)], SeatsOf(s, b))
       IN Res(Commit(s1), s1, TheatrePost(r, post.showtime_id, post.count, http),
              TRUE, "ok", NoSeat, post)

-----------------------------------------------------------------------------
(* services/seat_service.py: listing, extend, seat update and release *)

GetBookedSeats(d, s, r, showtime_id, now) ==
  LET booked == {i \in DOMAIN s.seats :
                   /\ s.seats[i].showtime_id = showtime_id
                   /\ ~s.seats[i].is_deleted
                   /\ s.seats[i].status \in {"on_hold", "booked"}}
      expired == {i \in booked : IsHoldExpired(s.seats[i], now)}
      s1 == ReleaseSeats(s, expired)
  IN IF expired = {}
     THEN Res(d, s, r, TRUE, "ok", NoSeat, NoPost)
     ELSE Res(Commit(s1), s1, r, TRUE, "ok", NoSeat, NoPost)

(* The seats get_booked_seats returns: the active ones that did not expire *)
ActiveSeats(s, showtime_id, now) ==
  {i \in DOMAIN s.seats :
     /\ s.seats[i].showtime_id = showtime_id
     /\ ~s.seats[i].is_deleted
     /\ s.seats[i].status \in {"on_hold", "booked"}
     /\ ~IsHoldExpired(s.seats[i], now)}

(* get_seat_map: a position is available when no seat get_booked_seats
   returned sits on it *)
GetSeatMap(s, showtime_id, now) ==
  [p \in SeatPositions |->
     ~\E i \in ActiveSeats(s, showtime_id, now) :
        s.seats[i].seat_row = p.row /\ s.seats[i].seat_col = p.col]

(* BookingService.get_showtime_seats: every non-deleted record of the
   showtime, returned with the status it has; nothing is released *)
GetShowtimeSeats(s, showtime_id) ==
  {i \in DOMAIN s.seats :
     s.seats[i].showtime_id = showtime_id /\ ~s.seats[i].is_deleted}

ExtendSeatHold(d, s, r, b, minutes, now) ==
  LET seats == {i \in DOMAIN s.seats :
                  /\ s.seats[i].booking_id = b
                  /\ s.seats[i].status = "on_hold"
                  /\ ~s.seats[i].is_deleted}
      s1 == [s EXCEPT !.seats = [i \in DOMAIN s.seats |->
                                   IF i \in seats
                                   THEN SeatExtendHold(s.seats[i], now, minutes)
                                   ELSE s.seats[i]]]
  IN IF seats = {}
     THEN Res(d, s, r, FALSE, "no_active_hold", NoSeat, NoPost)
     ELSE Res(Commit(s1), s1, r, TRUE, "ok", NoSeat, NoPost)

(* SeatService.get_booked_seat(booked_seat_id) found a non-deleted record *)
GetBookedSeat(s, sid) ==
  sid \in DOMAIN s.seats /\ ~s.seats[sid].is_deleted

ValidSeatStatuses == {"on_hold", "booked", "released"}
NoMinutes == 0

(* update_booked_seat; status "" and minutes NoMinutes stand for None *)
UpdateBookedSeat(d, s, r, sid, status, minutes, now) ==
  IF ~GetBookedSeat(s, sid)
  THEN Res(d, s, r, FALSE, "seat_not_found", NoSeat, NoPost)
  ELSE IF status # "" /\ status \notin ValidSeatStatuses
  THEN Res(d, s, r, FALSE, "invalid_status", NoSeat, NoPost)
  ELSE LET seat == s.seats[sid]
           seat1 == IF status = "" THEN seat
                    ELSE IF status = "booked" /\ seat.status = "on_hold"
                    THEN SeatConfirm(seat, now)
                    ELSE IF status = "released" THEN SeatRelease(seat)
                    ELSE [seat EXCEPT !.status = status]
           s1 == [s EXCEPT !.seats[sid] = seat1]
           s2 == [s EXCEPT !.seats[sid] = SeatExtendHold(seat1, now, minutes)]
       IN IF minutes = NoMinutes
          THEN Res(Commit(s1), s1, r, TRUE, "ok", NoSeat, NoPost)
          ELSE IF seat1.status # "on_hold"
          THEN Res(d, s1, r, FALSE, "not_on_hold", NoSeat, NoPost)
          ELSE Res(Commit(s2), s2, r, TRUE, "ok", NoSeat, NoPost)

(* delete_booked_seat; the local showtimes table has no rows (nothing in the
   service inserts one), so Showtime.query.get finds nothing to decrement *)
DeleteBookedSeat(d, s, r, sid) ==
  IF ~GetBookedSeat(s, sid)
  THEN Res(d, s, r, FALSE, "seat_not_found", NoSeat, NoPost)
  ELSE LET s1 == ReleaseSeats(s, {sid})
       IN Res(Commit(s1), s1, r, TRUE, "ok", NoSeat, NoPost)

-----------------------------------------------------------------------------
(* services/payment_service.py *)

Amounts == {"none", "nonpositive", "positive"}

(* The id the payments sequence hands out next: ids given explicitly by the
   payment simulation do not advance it *)
NextPaymentId(s) ==
  Cardinality({p \in DOMAIN s.payments : p < MockPaymentBase}) + 1

(* db.session.add(payment) *)
InsertPayment(s, payment_id, payment) ==
  [s EXCEPT !.payments = [p \in DOMAIN s.payments \cup {payment_id} |->
                            IF p = payment_id THEN payment ELSE s.payments[p]]]

CreatePayment(d, s, r, amount, b) ==
  IF amount = "nonpositive"
  THEN Res(d, s, r, FALSE, "invalid_amount", NoSeat, NoPost)
  ELSE IF ~GetBooking(s, b)
  THEN Res(d, s, r, FALSE, "booking_not_found", NoSeat, NoPost)
  ELSE IF s.bookings[b].payment_id # NoPayment
  THEN Res(d, s, r, FALSE, "payment_already_linked", NoSeat, NoPost)
  ELSE LET s1 == [InsertPayment(s, NextPaymentId(s), NewPayment)
                    EXCEPT !.bookings[b].payment_id = NextPaymentId(s)]
       IN Res(Commit(s1), s1, r, TRUE, "ok", NoSeat, NoPost)

(* Booking.query.filter_by(payment_id=payment_id): deleted bookings included *)
LinkedBookings(s, payment_id) ==
  {b \in DOMAIN s.bookings : s.bookings[b].payment_id = payment_id}

(* A process_payment that keeps the completion when the confirmation of the
   booking failed: what C18 excludes *)
ProcessPaymentKeepsCompletion(d, s, r, payment_id, lb, http, now) ==
  IF ~GetPayment(s, payment_id)
  THEN Res(d, s, r, FALSE, "payment_not_found", NoSeat, NoPost)
  ELSE IF s.payments[payment_id].status # "pending"
  THEN Res(d, s, r, FALSE, "invalid_state", NoSeat, NoPost)
  ELSE LET s1 == [s EXCEPT !.payments[payment_id].status = "completed"]
           u == UpdateBooking(d, s1, r, lb, "confirmed", payment_id, http, now)
       IN IF lb = 0
          THEN Res(Commit(s1), s1, r, TRUE, "ok", NoSeat, NoPost)
          ELSE IF ~u.ok
          THEN Res(Commit(s1), s1, u.remote, FALSE, "confirmation_failed", NoSeat, u.post)
          ELSE Res(Commit(u.sess), u.sess, u.remote, TRUE, "ok", NoSeat, u.post)

(* process_payment; lb is the booking .first() returned, 0 when there is none *)
ProcessPayment(d, s, r, payment_id, lb, http, now) ==
  IF ~GetPayment(s, payment_id)
  THEN Res(d, s, r, FALSE, "payment_not_found", NoSeat, NoPost)
  ELSE IF s.payments[payment_id].status # "pending"
  THEN Res(d, s, r, FALSE, "invalid_state", NoSeat, NoPost)
  ELSE LET s1 == [s EXCEPT !.payments[payment_id].status = "completed"]
           u == UpdateBooking(d, s1, r, lb, "confirmed", payment_id, http, now)
       IN IF lb = 0
          THEN Res(Commit(s1), s1, r, TRUE, "ok", NoSeat, NoPost)
          ELSE IF ~u.ok
          THEN Res(u.db, Rollback(u.db), u.remote, FALSE, "confirmation_failed", NoSeat, u.post)
          ELSE Res(Commit(u.sess), u.sess, u.remote, TRUE, "ok", NoSeat, u.post)

(* A fail_payment that leaves the linked booking alone: what C19 excludes *)
FailPaymentOnly(d, s, r, payment_id, lb, http, now) ==
  IF ~GetPayment(s, payment_id)
  THEN Res(d, s, r, FALSE, "payment_not_found", NoSeat, NoPost)
  ELSE LET s1 == [s EXCEPT !.payments[payment_id].status = "failed"]
       IN Res(Commit(s1), s1, r, TRUE, "ok", NoSeat, NoPost)

(* fail_payment; the result of the cascaded update_booking is not looked at *)
FailPayment(d, s, r, payment_id, lb, http, now) ==
  IF ~GetPayment(s, payment_id)
  THEN Res(d, s, r, FALSE, "payment_not_found", NoSeat, NoPost)
  ELSE LET s1 == [s EXCEPT !.payments[payment_id].status = "failed"]
           u == UpdateBooking(d, s1, r, lb, "failed", NoPayment, http, now)
       IN IF lb = 0
          THEN Res(Commit(s1), s1, r, TRUE, "ok", NoSeat, NoPost)
          ELSE Res(Commit(u.sess), u.sess, u.remote, TRUE, "ok", NoSeat, u.post)

ValidPaymentStatuses == {"pending", "completed", "failed", "refunded"}

UpdatePayment(d, s, r, payment_id, amount, status) ==
  IF ~GetPayment(s, payment_id)
  THEN Res(d, s, r, FALSE, "payment_not_found", NoSeat, NoPost)
  ELSE IF amount = "nonpositive"
  THEN Res(d, s, r, FALSE, "invalid_amount", NoSeat, NoPost)
  ELSE IF status # "" /\ status \notin ValidPaymentStatuses
  THEN Res(d, s, r, FALSE, "invalid_status", NoSeat, NoPost)
  ELSE LET s1 == IF status = "" THEN s
                 ELSE [s EXCEPT !.payments[payment_id].status = status]
       IN Res(Commit(s1), s1, r, TRUE, "ok", NoSeat, NoPost)

DeletePayment(d, s, r, payment_id) ==
  IF payment_id \notin DOMAIN s.payments
  THEN Res(d, s, r, FALSE, "payment_not_found", NoSeat, NoPost)
  ELSE IF s.payments[payment_id].is_deleted
  THEN Res(d, s, r, FALSE, "already_deleted", NoSeat, NoPost)
  ELSE LET s1 == [s EXCEPT !.payments[payment_id] = SoftDelete(@)]
       IN Res(Commit(s1), s1, r, TRUE, "ok", NoSeat, NoPost)

-----------------------------------------------------------------------------
(* The requests; every input is drawn from the small sets below *)

(* routers/booking_routes.py: simulate_payment_processing, the background task
   the create endpoint schedules *)

MockPaymentId(b) == MockPaymentBase + b

MockPaymentPending == [status |-> "pending", is_deleted |-> FALSE]

MockPayment == [status |-> "completed", is_deleted |-> FALSE]

(* What the task does to the tables once its sleep is over: nothing when the
   booking is gone, else the mock payment is inserted and committed unless a
   payment with that id exists, and update_booking(status confirmed) runs *)
SimulatePaymentProcessing(d, s, r, b, http, now) ==
  IF ~GetBooking(s, b)
  THEN Res(d, s, r, FALSE, "booking_not_found", NoSeat, NoPost)
  ELSE LET s1 == IF MockPaymentId(b) \in DOMAIN s.payments
                 THEN s
                 ELSE InsertPayment(s, MockPaymentId(b), MockPayment)
           d1 == IF MockPaymentId(b) \in DOMAIN s.payments THEN d ELSE Commit(s1)
       IN UpdateBooking(d1, s1, r, b, "confirmed", MockPaymentId(b), http, now)

(* How the event part of the task ends *)
PublishOutcomes == {"published", "enrich_failed", "publish_failed", "not_configured"}

PublishesUnconditionally(success, pub) ==
  pub = "published"

(* The booking-confirmed event goes out when update_booking reported success
   and nothing raised up to publisher.publish *)
Publishes(success, pub) ==
  success /\ pub = "published"

BookingIds == 1..MaxBookings
PaymentIds == 1..MaxPayments
SeatIds == 1..(2 * MaxBookings)
BookingStatusInputs == ValidBookingStatuses \cup {"", "bogus"}
SeatStatusInputs == ValidSeatStatuses \cup {"", "bogus"}
PaymentStatusInputs == ValidPaymentStatuses \cup {"", "bogus"}

(* A service call that ran to its return: R is what it computed *)
Do(R, http) ==
  /\ R.post.made \/ http = "ok"
  /\ \A st \in Showtimes : R.remote[st] \in (0 - MaxNet)..MaxNet
  /\ db' = R.db
  /\ sess' = R.sess
  /\ remote' = R.remote
  /\ Step
  /\ UNCHANGED <<clock, inflight, tasks, events, confirming>>

Confirm(b, payment_id, http) ==
  Do(ConfirmBooking(db, sess, remote, b, payment_id, http, clock), http)

(* A confirm_booking call between the accepted increment and its writes *)
ConfirmCall(b, payment_id, seats) ==
  [booking_id |-> b, payment_id |-> payment_id, seats |-> seats]

(* confirm_booking up to the answer of the theatre service: a call rejected
   by its checks or by the theatre service ends here, an accepted one has
   its writes still to do *)
ConfirmStart(b, payment_id, http) ==
  LET R == ConfirmBooking(db, sess, remote, b, payment_id, http, clock)
  IN IF ~R.ok
     THEN Do(R, http)
     ELSE /\ BagCardinality(confirming) < NumWorkers
          /\ \A st \in Showtimes : R.remote[st] \in (0 - MaxNet)..MaxNet
          /\ remote' = R.remote
          /\ confirming' = confirming (+)
                             SetToBag({ConfirmCall(b, payment_id, SeatsOf(sess, b))})
          /\ Step
          /\ UNCHANGED <<db, sess, clock, inflight, tasks, events>>

(* The writes and the commit of an accepted confirm_booking call *)
ConfirmFinish(c) ==
  /\ BagIn(c, confirming)
  /\ LET s1 == ConfirmWrite(sess, c.booking_id, c.payment_id, c.seats, clock)
     IN /\ db' = Commit(s1)
        /\ sess' = s1
  /\ confirming' = confirming (-) SetToBag({c})
  /\ Step
  /\ UNCHANGED <<clock, remote, inflight, tasks, events>>

Cancel(b, http) ==
  Do(CancelBooking(db, sess, remote, b, http), http)

Fail(b, http) ==
  Do(FailBooking(db, sess, remote, b, http), http)

Sweep ==
  Do(ReleaseExpiredHolds(db, sess, remote, clock), "ok")

Update(b, status, payment_id, http) ==
  Do(UpdateBooking(db, sess, remote, b, status, payment_id, http, clock), http)

Delete(b, http) ==
  Do(DeleteBooking(db, sess, remote, b, http), http)

CheckAvailability(showtime_id, seats) ==
  \E o \in CheckSeatsAvailability(db, sess, showtime_id, seats, clock) :
    Do(Res(o.db, o.sess, remote, o.ok, IF o.ok THEN "ok" ELSE "seat_conflict", o.seat, NoPost),
       "ok")

ListSeats(showtime_id) ==
  Do(GetBookedSeats(db, sess, remote, showtime_id, clock), "ok")

(* GET seat map: get_booked_seats, with its lazy release, then the map *)
SeatMap(showtime_id) ==
  Do(GetBookedSeats(db, sess, remote, showtime_id, clock), "ok")

(* GET /bookings/showtime/{id}/seats: a plain read *)
ShowtimeSeats(showtime_id) ==
  /\ GetShowtimeSeats(sess, showtime_id) \subseteq DOMAIN sess.seats
  /\ Do(Res(db, sess, remote, TRUE, "ok", NoSeat, NoPost), "ok")

(* The background task of booking b, from the end of its sleep to its end *)
SimulatePayment(b, http) ==
  /\ b \in tasks
  /\ LET R == SimulatePaymentProcessing(db, sess, remote, b, http, clock)
     IN /\ R.post.made \/ http = "ok"
        /\ \A st \in Showtimes : R.remote[st] \in (0 - MaxNet)..MaxNet
        /\ db' = R.db
        /\ sess' = R.sess
        /\ remote' = R.remote
        /\ \E pub \in PublishOutcomes :
             events' = IF Publishes(R.ok, pub) THEN events \cup {b} ELSE events
  /\ tasks' = tasks \ {b}
  /\ Step
  /\ UNCHANGED <<clock, inflight, confirming>>

Extend(b, minutes) ==
  Do(ExtendSeatHold(db, sess, remote, b, minutes, clock), "ok")

UpdateSeat(sid, status, minutes) ==
  Do(UpdateBookedSeat(db, sess, remote, sid, status, minutes, clock), "ok")

ReleaseSeat(sid) ==
  Do(DeleteBookedSeat(db, sess, remote, sid), "ok")

PayCreate(amount, b) ==
  LET R == CreatePayment(db, sess, remote, amount, b)
  IN /\ R.ok => NextPaymentId(sess) <= MaxPayments
     /\ Do(R, "ok")

(* The booking .first() may return among those linked to the payment *)
FirstLinked(payment_id) ==
  IF LinkedBookings(sess, payment_id) = {} THEN {0} ELSE LinkedBookings(sess, payment_id)

PayProcess(payment_id, http) ==
  \E lb \in FirstLinked(payment_id) :
    Do(ProcessPayment(db, sess, remote, payment_id, lb, http, clock), http)

PayFail(payment_id, http) ==
  \E lb \in FirstLinked(payment_id) :
    Do(FailPayment(db, sess, remote, payment_id, lb, http, clock), http)

PayRefund(payment_id) ==
  Do(RefundPayment(db, sess, remote, payment_id), "ok")

PayUpdate(payment_id, amount, status) ==
  Do(UpdatePayment(db, sess, remote, payment_id, amount, status), "ok")

PayDelete(payment_id) ==
  Do(DeletePayment(db, sess, remote, payment_id), "ok")

(* Every request with the theatre service answering from H (POST) and G (GET) *)
Requests(H, G) ==
  \/ \E st \in Showtimes, seats \in CreateInputs, http \in G : CreateCheck(st, seats, http)
  \/ \E q \in BagToSet(inflight) : CreateInsert(q)
  \/ \E q \in BagToSet(inflight) : CreateInsertFails(q)
  \/ \E b \in tasks, http \in H : SimulatePayment(b, http)
  \/ \E d \in TickSteps : Tick(d)
  \/ \E b \in BookingIds, p \in PaymentIds, http \in H : Confirm(b, p, http)
  \/ \E b \in BookingIds, http \in H : Cancel(b, http)
  \/ \E b \in BookingIds, http \in H : Fail(b, http)
  \/ Sweep
  \/ \E b \in BookingIds, status \in BookingStatusInputs,
        p \in PaymentIds \cup {NoPayment}, http \in H : Update(b, status, p, http)
  \/ \E b \in BookingIds, http \in H : Delete(b, http)
  \/ \E st \in Showtimes, seats \in SeatRequests : CheckAvailability(st, seats)
  \/ \E st \in Showtimes : ListSeats(st)
  \/ \E st \in Showtimes : SeatMap(st)
  \/ \E st \in Showtimes : ShowtimeSeats(st)
  \/ \E b \in BookingIds, m \in ExtendMinutes : Extend(b, m)
  \/ \E sid \in SeatIds, status \in SeatStatusInputs, m \in ExtendMinutes \cup {NoMinutes} :
       UpdateSeat(sid, status, m)
  \/ \E sid \in SeatIds : ReleaseSeat(sid)
  \/ \E amount \in Amounts \ {"none"}, b \in BookingIds : PayCreate(amount, b)
  \/ \E p \in PaymentIds, http \in H : PayProcess(p, http)
  \/ \E p \in PaymentIds, http \in H : PayFail(p, http)
  \/ \E p \in PaymentIds : PayRefund(p)
  \/ \E p \in PaymentIds, amount \in Amounts, status \in PaymentStatusInputs :
       PayUpdate(p, amount, status)
  \/ \E p \in PaymentIds : PayDelete(p)

Next == Requests(HttpOutcomes, GetOutcomes)

Spec == Init /\ [][Next]_vars

(* The runs in which every call to the theatre service succeeds *)
(* The event loop runs every scheduled task: requests leave each task that is
   still waiting a step of the run, and no task waits forever *)
NextFair == Next /\ steps' + Cardinality(tasks') <= MaxSteps

TaskRuns(b) ==
  /\ \E http \in HttpOutcomes : SimulatePayment(b, http)
  /\ steps' + Cardinality(tasks') <= MaxSteps

SpecFair == Init /\ [][NextFair]_vars /\ \A b \in BookingIds : WF_vars(TaskRuns(b))

(* Confirmations that overlap each other, a cancel or the background task *)
RacePaymentIds == PaymentIds \cup {MockPaymentId(b) : b \in BookingIds}

NextRace ==
  \/ \E st \in Showtimes, p \in SeatPositions : CreateCheck(st, <<p>>, "ok")
  \/ \E q \in BagToSet(inflight) : CreateInsert(q)
  \/ \E b \in tasks, http \in HttpOutcomes : SimulatePayment(b, http)
  \/ \E b \in BookingIds, p \in RacePaymentIds, http \in HttpOutcomes :
       ConfirmStart(b, p, http)
  \/ \E c \in BagToSet(confirming) : ConfirmFinish(c)
  \/ \E b \in BookingIds, http \in HttpOutcomes : Cancel(b, http)
  \/ \E b \in BookingIds, http \in HttpOutcomes : Delete(b, http)

SpecRace == Init /\ [][NextRace]_vars

NextOk == Requests({"ok"}, {"ok"})

SpecOk == Init /\ [][NextOk]_vars

-----------------------------------------------------------------------------
(* Vocabulary of the properties *)

(* A seat record that occupies its seat: not soft-deleted, on_hold or booked *)
Active(seat) == ~seat.is_deleted /\ seat.status \in {"on_hold", "booked"}

SameSeat(a, b) ==
  a.showtime_id = b.showtime_id /\ a.seat_row = b.seat_row /\ a.seat_col = b.seat_col

(* Some record of tables s holds the seat at time now: booked, or on_hold
   with the hold not yet expired *)
HeldAt(s, showtime_id, seat, now) ==
  \E i \in DOMAIN s.seats :
    /\ Active(s.seats[i])
    /\ s.seats[i].showtime_id = showtime_id
    /\ s.seats[i].seat_row = seat.row
    /\ s.seats[i].seat_col = seat.col
    /\ (s.seats[i].status = "booked" \/ now <= s.seats[i].hold_expiry_time)

(* The non-deleted seat records the committed tables give booking b *)
Owned(tables, b) ==
  {i \in DOMAIN tables.seats :
     tables.seats[i].booking_id = b /\ ~tables.seats[i].is_deleted}

-----------------------------------------------------------------------------
(* C1: in every reachable state no two non-deleted seat records with status
   on_hold or booked share the same (showtime_id, seat_row, seat_col). *)
C1_SeatUniqueness ==
  \A i, j \in DOMAIN db.seats :
    (i # j /\ Active(db.seats[i]) /\ Active(db.seats[j]))
      => ~SameSeat(db.seats[i], db.seats[j])

(* C2: of two create_booking calls racing for the same seat the loser gets a
   seat conflict and leaves no hold: no create inserts a hold on a seat that
   another record holds at that instant. *)
C2_LoserGetsConflict ==
  [][\A q \in BagToSet(inflight) :
       CreateInsert(q) =>
         \A k \in DOMAIN q.seats : ~HeldAt(db, q.showtime_id, q.seats[k], clock)]_vars

(* C3: a create_booking request naming a seat that is held (on_hold and not
   expired) or booked never passes the availability check: every outcome of
   the check is a conflict naming a held seat of the request, so no booking
   and no seat record is created. *)
C3_HeldSeatRejected ==
  \A st \in Showtimes, seats \in SeatRequests :
    (ValidateSeats(seats) /\ \E k \in DOMAIN seats : HeldAt(sess, st, seats[k], clock))
      => \A o \in CheckSeatsAvailability(db, sess, st, seats, clock) :
           ~o.ok /\ HeldAt(sess, st, o.seat, clock)

(* C4: a create_booking that succeeds for n seats adds exactly one booking,
   pending and without payment, and exactly n non-deleted seat records owned
   by it, each on_hold with hold_expiry_time = creation time + 10 minutes,
   changes no other record, and sends nothing to the theatre service. *)
C4_CreateYieldsPendingHolds ==
  [][\A q \in BagToSet(inflight) :
       CreateInsert(q) =>
         LET b == Len(db.bookings) + 1
         IN /\ Len(db'.bookings) = b
            /\ db'.bookings[b].status = "pending"
            /\ db'.bookings[b].payment_id = NoPayment
            /\ ~db'.bookings[b].is_deleted
            /\ db'.bookings[b].showtime_id = q.showtime_id
            /\ Cardinality(Owned(db', b)) = Len(q.seats)
            /\ Len(db'.seats) = Len(db.seats) + Len(q.seats)
            /\ \A i \in Owned(db', b) :
                 /\ db'.seats[i].status = "on_hold"
                 /\ db'.seats[i].hold_expiry_time = clock + HoldDurationMinutes
                 /\ \E k \in DOMAIN q.seats :
                      /\ db'.seats[i].seat_row = q.seats[k].row
                      /\ db'.seats[i].seat_col = q.seats[k].col
            /\ \A c \in DOMAIN db.bookings : db'.bookings[c] = sess.bookings[c]
            /\ \A i \in DOMAIN db.seats : db'.seats[i] = sess.seats[i]
            /\ remote' = remote]_vars

(* A booking just created for two seats: pending, no payment, two holds that
   expire 10 minutes after now *)
C4_Witness ==
  \E b \in DOMAIN db.bookings :
    /\ db.bookings[b].status = "pending"
    /\ db.bookings[b].payment_id = NoPayment
    /\ Cardinality(Owned(db, b)) = 2
    /\ \A i \in Owned(db, b) :
         /\ db.seats[i].status = "on_hold"
         /\ db.seats[i].hold_expiry_time = clock + HoldDurationMinutes

(* C5: confirm_booking on a pending booking with a payment that is missing,
   soft-deleted or not completed returns failure, sends no increment, and
   leaves every table as it was: the booking pending, its seats on_hold. *)
C5_ConfirmNeedsCompletedPayment ==
  [][\A b \in BookingIds, p \in PaymentIds, http \in HttpOutcomes :
       LET R == ConfirmBooking(db, sess, remote, b, p, http, clock)
       IN (/\ GetBooking(db, b)
           /\ db.bookings[b].status = "pending"
           /\ \/ p \notin DOMAIN db.payments
              \/ db.payments[p].is_deleted
              \/ db.payments[p].status # "completed"
           /\ Confirm(b, p, http))
            => /\ ~R.ok
               /\ ~R.post.made
               /\ remote' = remote
               /\ db' = db
               /\ db'.bookings[b].status = "pending"
               /\ \A i \in Owned(db, b) : db'.seats[i].status = db.seats[i].status]_vars

(* A pending booking holding a seat, a payment that is not completed, and a
   confirm with that payment answered payment_not_completed *)
C5_Witness ==
  \E b \in DOMAIN db.bookings, p \in DOMAIN db.payments :
    /\ db.bookings[b].status = "pending" /\ ~db.bookings[b].is_deleted
    /\ \E i \in Owned(db, b) : db.seats[i].status = "on_hold"
    /\ db.payments[p].status # "completed"
    /\ ConfirmBooking(db, sess, remote, b, p, "ok", clock).msg = "payment_not_completed"

(* C6: when the increment sent by confirm fails (network error or status
   >= 400), confirm_booking, called directly or through update_booking,
   returns failure; the booking stays pending, its seats stay as they were
   (on_hold), nothing is counted remotely, and the payment link of the
   booking is the committed one, also in the session. *)
C6_FailedIncrementKeepsPending ==
  [][\A b \in BookingIds, p \in PaymentIds, http \in HttpOutcomes \ {"ok"} :
       LET R == ConfirmBooking(db, sess, remote, b, p, http, clock)
           U == UpdateBooking(db, sess, remote, b, "confirmed", p, http, clock)
           Kept == /\ db' = db
                   /\ remote' = remote
                   /\ db'.bookings[b].status = "pending"
                   /\ \A i \in Owned(db, b) : db'.seats[i] = db.seats[i]
                   /\ sess'.bookings[b].payment_id = db.bookings[b].payment_id
       IN /\ (R.post.made /\ Confirm(b, p, http)) => (~R.ok /\ Kept)
          /\ (U.post.made /\ Update(b, "confirmed", p, http)) => (~U.ok /\ Kept)]_vars

(* A pending booking with an on_hold seat and a completed payment, and a
   confirm with that payment whose increment is refused: failure, and the
   session back at the committed state *)
C6_Witness ==
  \E b \in DOMAIN db.bookings, p \in DOMAIN db.payments :
    /\ db.bookings[b].status = "pending" /\ ~db.bookings[b].is_deleted
    /\ \E i \in Owned(db, b) : db.seats[i].status = "on_hold"
    /\ db.payments[p].status = "completed" /\ ~db.payments[p].is_deleted
    /\ LET R == ConfirmBooking(db, sess, remote, b, p, "error", clock)
       IN R.post.made /\ ~R.ok /\ R.db = db /\ R.sess = db

(* The non-deleted booked seat records of a showtime *)
BookedCount(showtime_id) ==
  Cardinality({i \in DOMAIN db.seats :
                 /\ db.seats[i].showtime_id = showtime_id
                 /\ db.seats[i].status = "booked"
                 /\ ~db.seats[i].is_deleted})

(* C7: when no request is in flight and every theatre-service call has
   succeeded, the net seat count sent for a showtime equals the number of its
   non-deleted booked seat records. *)
C7_RemoteCountMatchesBooked ==
  Quiescent => \A st \in Showtimes : remote[st] = BookedCount(st)

(* C8: cancel, fail and delete that go through return success whatever the
   decrement call answers, commit the same tables for every answer, release
   every seat the booking owned, and each of those seats then passes
   check_seats_availability. *)
C8_ReleaseIgnoresDecrement ==
  [][\A b \in BookingIds, http \in HttpOutcomes :
       LET Released(R, R0) ==
             /\ R.ok
             /\ R.db = R0.db
             /\ \A i \in SeatsOf(sess, b) :
                  /\ db'.seats[i].status = "released"
                  /\ \A o \in CheckSeatsAvailability(
                                db', sess', db.seats[i].showtime_id,
                                <<[row |-> db.seats[i].seat_row,
                                   col |-> db.seats[i].seat_col]>>, clock) : o.ok
           C == CancelBooking(db, sess, remote, b, http)
           F == FailBooking(db, sess, remote, b, http)
           D == DeleteBooking(db, sess, remote, b, http)
       IN /\ (C.post.made /\ Cancel(b, http))
               => Released(C, CancelBooking(db, sess, remote, b, "ok"))
          /\ (F.post.made /\ Fail(b, http))
               => Released(F, FailBooking(db, sess, remote, b, "ok"))
          /\ (D.post.made /\ Delete(b, http))
               => Released(D, DeleteBooking(db, sess, remote, b, "ok"))]_vars

(* What C9 asks of a cancel of booking b linked to payment p *)
CancelledAndRefunded(b, p) ==
  /\ db'.bookings[b].status = "cancelled"
  /\ \A i \in Owned(db, b) : db'.seats[i].status = "released"
  /\ db'.payments[p].status = "refunded"

(* C9 as stated: cancelling a confirmed booking whose linked payment is
   completed leaves the booking cancelled, its seats released and the
   payment refunded. *)
C9_CancelRefunds ==
  [][\A b \in BookingIds, p \in PaymentIds, http \in HttpOutcomes :
       (/\ GetBooking(db, b)
        /\ db.bookings[b].status = "confirmed"
        /\ db.bookings[b].payment_id = p
        /\ p \in DOMAIN db.payments
        /\ db.payments[p].status = "completed"
        /\ Cancel(b, http))
         => CancelledAndRefunded(b, p)]_vars

(* C9 amended: cancelling a confirmed booking whose linked payment is
   completed and not soft-deleted leaves the booking cancelled, its seats
   released and the payment refunded. *)
C9_CancelRefundsLivePayment ==
  [][\A b \in BookingIds, p \in PaymentIds, http \in HttpOutcomes :
       (/\ GetBooking(db, b)
        /\ db.bookings[b].status = "confirmed"
        /\ db.bookings[b].payment_id = p
        /\ GetPayment(db, p)
        /\ db.payments[p].status = "completed"
        /\ Cancel(b, http))
         => CancelledAndRefunded(b, p)]_vars

(* A cancelled booking with a released seat that was booked just now (confirm
   stamps hold_expiry_time with the confirmation time, a hold ends later)
   and a linked payment that is refunded *)
C9_Witness ==
  \E b \in DOMAIN db.bookings :
    /\ db.bookings[b].status = "cancelled"
    /\ db.bookings[b].payment_id \in DOMAIN db.payments
    /\ db.payments[db.bookings[b].payment_id].status = "refunded"
    /\ ~db.payments[db.bookings[b].payment_id].is_deleted
    /\ \E i \in DOMAIN db.seats :
         /\ db.seats[i].booking_id = b
         /\ db.seats[i].status = "released"
         /\ db.seats[i].hold_expiry_time = clock

(* C10: a booking that has reached cancelled or failed is never pending or
   confirmed again, whatever request follows. *)
C10_NoResurrection ==
  [][\A b \in DOMAIN db.bookings :
       db.bookings[b].status \in {"cancelled", "failed"}
         => db'.bookings[b].status \notin {"pending", "confirmed"}]_vars

(* C11: a cancelled booking that carries a payment link (it had been
   confirmed) cannot be confirmed again: confirm_booking, called directly or
   through update_booking with status confirmed and no or an existing
   payment id, answers invalid state without sending an increment, and the
   booking stays cancelled, its seats released, the counter untouched. *)
C11_NoReconfirmAfterCancel ==
  [][\A b \in BookingIds, http \in HttpOutcomes :
       LET R(p) == ConfirmBooking(db, sess, remote, b, p, http, clock)
           U(q) == UpdateBooking(db, sess, remote, b, "confirmed", q, http, clock)
           Refused(X) ==
             /\ ~X.ok /\ X.msg = "invalid_state" /\ ~X.post.made
             /\ db' = db
             /\ remote' = remote
             /\ db'.bookings[b].status = "cancelled"
             /\ \A i \in DOMAIN db.seats :
                  db.seats[i].booking_id = b => db'.seats[i].status = "released"
       IN (/\ GetBooking(db, b)
           /\ db.bookings[b].status = "cancelled"
           /\ db.bookings[b].payment_id # NoPayment)
            => /\ \A p \in PaymentIds : Confirm(b, p, http) => Refused(R(p))
               /\ \A q \in {NoPayment} \cup DOMAIN db.payments :
                    Update(b, "confirmed", q, http) => Refused(U(q))]_vars

(* A booking that was confirmed (its seat carries the confirmation stamp)
   and then cancelled, and a confirm of it answered invalid state *)
C11_Witness ==
  \E b \in DOMAIN db.bookings :
    /\ db.bookings[b].status = "cancelled" /\ ~db.bookings[b].is_deleted
    /\ db.bookings[b].payment_id \in DOMAIN db.payments
    /\ db.payments[db.bookings[b].payment_id].status = "refunded"
    /\ \E i \in DOMAIN db.seats :
         /\ db.seats[i].booking_id = b
         /\ db.seats[i].status = "released"
         /\ db.seats[i].hold_expiry_time = clock
    /\ ConfirmBooking(db, sess, remote, b, db.bookings[b].payment_id, "ok", clock).msg
         = "invalid_state"
    /\ UpdateBooking(db, sess, remote, b, "confirmed", NoPayment, "ok", clock).msg
         = "invalid_state"

(* C12: asking again for the state a booking is already in is an error
   through every entry point: cancel_booking and update_booking with status
   cancelled on a cancelled booking, fail_booking and update_booking with
   status failed on a failed booking, delete_booking on a deleted booking. *)
C12_RepeatIsAnError ==
  \A b \in DOMAIN db.bookings, http \in HttpOutcomes :
    LET U(status) == UpdateBooking(db, sess, remote, b, status, NoPayment, http, clock)
    IN /\ (~db.bookings[b].is_deleted /\ db.bookings[b].status = "cancelled")
            => /\ ~CancelBooking(db, sess, remote, b, http).ok
               /\ ~U("cancelled").ok
       /\ (~db.bookings[b].is_deleted /\ db.bookings[b].status = "failed")
            => /\ ~FailBooking(db, sess, remote, b, http).ok
               /\ ~U("failed").ok
       /\ db.bookings[b].is_deleted
            => ~DeleteBooking(db, sess, remote, b, http).ok

(* C13: every non-deleted seat record owned by a non-deleted confirmed
   booking has status booked. *)
C13_ConfirmedSeatsBooked ==
  \A b \in DOMAIN db.bookings :
    (~db.bookings[b].is_deleted /\ db.bookings[b].status = "confirmed")
      => \A i \in Owned(db, b) : db.seats[i].status = "booked"

(* C14: every non-deleted confirmed booking is linked to a payment whose
   status is completed. *)
C14_ConfirmedHasCompletedPayment ==
  \A b \in DOMAIN db.bookings :
    (~db.bookings[b].is_deleted /\ db.bookings[b].status = "confirmed")
      => /\ db.bookings[b].payment_id \in DOMAIN db.payments
         /\ db.payments[db.bookings[b].payment_id].status = "completed"

(* C15: no payment is the payment_id of two bookings. *)
C15_PaymentLinkedOnce ==
  \A b, c \in DOMAIN db.bookings :
    (b # c /\ db.bookings[b].payment_id # NoPayment)
      => db.bookings[b].payment_id # db.bookings[c].payment_id

(* C16: a payment's status changes only along pending -> completed,
   pending -> failed and completed -> refunded. *)
C16_PaymentStatusMachine ==
  [][\A p \in DOMAIN db.payments :
       \/ db'.payments[p].status = db.payments[p].status
       \/ <<db.payments[p].status, db'.payments[p].status>> \in
            {<<"pending", "completed">>, <<"pending", "failed">>,
             <<"completed", "refunded">>}]_vars

(* C17: refund_payment succeeds exactly on a payment it finds in status
   completed, and then the payment is refunded; on a pending, failed or
   refunded payment it answers not refundable; whenever it fails, the
   payment, like every committed record, is left as it was. *)
C17_RefundOnlyCompleted ==
  [][\A p \in PaymentIds :
       LET R == RefundPayment(db, sess, remote, p)
       IN PayRefund(p) =>
            /\ R.ok <=> (GetPayment(db, p) /\ db.payments[p].status = "completed")
            /\ R.ok => db'.payments[p].status = "refunded"
            /\ (GetPayment(db, p) /\ db.payments[p].status # "completed")
                 => /\ R.msg = "not_refundable"
                    /\ db'.payments[p].status = db.payments[p].status
            /\ ~R.ok => db' = db
            /\ remote' = remote]_vars

(* A failed payment, for which refund_payment answers not refundable *)
C17_Witness ==
  \E p \in DOMAIN db.payments :
    /\ ~db.payments[p].is_deleted
    /\ db.payments[p].status = "failed"
    /\ RefundPayment(db, sess, remote, p).msg = "not_refundable"
    /\ RefundPayment(db, sess, remote, p).db = db

(* C18: process_payment on a pending payment whose lookup returns linked
   booking lb is all or nothing.  When it fails, nothing is committed or
   counted and the payment is still pending; it fails whenever lb is
   deleted, cancelled or failed, or pending with the increment refused; when
   it succeeds the payment is completed and lb is confirmed. *)
C18_ProcessAllOrNothing ==
  [][\A p \in PaymentIds, lb \in BookingIds, http \in HttpOutcomes :
       LET R == ProcessPayment(db, sess, remote, p, lb, http, clock)
       IN (/\ GetPayment(db, p)
           /\ db.payments[p].status = "pending"
           /\ lb \in LinkedBookings(sess, p)
           /\ Do(R, http))
            => /\ ~R.ok => /\ db' = db
                           /\ sess' = db
                           /\ remote' = remote
                           /\ db'.payments[p].status = "pending"
               /\ R.ok => /\ db'.payments[p].status = "completed"
                          /\ db'.bookings[lb].status = "confirmed"
               /\ (\/ db.bookings[lb].is_deleted
                   \/ db.bookings[lb].status \in {"cancelled", "failed"}
                   \/ (db.bookings[lb].status = "pending" /\ http # "ok"))
                    => ~R.ok]_vars

(* A pending payment linked to a pending booking with a held seat, for which
   process_payment fails when the increment is refused and leaves the
   committed tables alone *)
C18_Witness ==
  \E p \in DOMAIN db.payments, lb \in DOMAIN db.bookings :
    /\ db.payments[p].status = "pending" /\ ~db.payments[p].is_deleted
    /\ db.bookings[lb].payment_id = p
    /\ db.bookings[lb].status = "pending" /\ ~db.bookings[lb].is_deleted
    /\ \E i \in Owned(db, lb) : db.seats[i].status = "on_hold"
    /\ LET R == ProcessPayment(db, sess, remote, p, lb, "error", clock)
       IN ~R.ok /\ R.post.made /\ R.db = db /\ R.sess = db

(* C19 as stated: a fail_payment that reports success on a payment whose
   lookup returns linked booking lb leaves the payment failed and lb failed
   with every seat it owned released, never pending or confirmed. *)
C19_FailPaymentFailsBooking ==
  [][\A p \in PaymentIds, lb \in BookingIds, http \in HttpOutcomes :
       LET R == FailPayment(db, sess, remote, p, lb, http, clock)
       IN (lb \in LinkedBookings(sess, p) /\ R.ok /\ Do(R, http))
            => /\ db'.payments[p].status = "failed"
               /\ db'.bookings[lb].status = "failed"
               /\ \A i \in Owned(db, lb) : db'.seats[i].status = "released"]_vars

(* C19 amended: a fail_payment that reports success on a payment whose
   lookup returns a linked booking lb that is not soft-deleted leaves the
   payment failed and lb failed with every seat it owned released. *)
C19_FailPaymentFailsLiveBooking ==
  [][\A p \in PaymentIds, lb \in BookingIds, http \in HttpOutcomes :
       LET R == FailPayment(db, sess, remote, p, lb, http, clock)
       IN (/\ lb \in LinkedBookings(sess, p)
           /\ ~db.bookings[lb].is_deleted
           /\ R.ok
           /\ Do(R, http))
            => /\ db'.payments[p].status = "failed"
               /\ db'.bookings[lb].status = "failed"
               /\ \A i \in Owned(db, lb) : db'.seats[i].status = "released"]_vars

(* A pending payment linked to a live pending booking holding a seat, on
   which fail_payment succeeds and commits the booking failed and the seat
   released *)
C19_Witness ==
  \E p \in DOMAIN db.payments, lb \in DOMAIN db.bookings :
    /\ db.payments[p].status = "pending" /\ ~db.payments[p].is_deleted
    /\ db.bookings[lb].payment_id = p
    /\ db.bookings[lb].status = "pending" /\ ~db.bookings[lb].is_deleted
    /\ Owned(db, lb) # {}
    /\ LET R == FailPayment(db, sess, remote, p, lb, "ok", clock)
       IN /\ R.ok
          /\ R.db.payments[p].status = "failed"
          /\ R.db.bookings[lb].status = "failed"
          /\ \A i \in Owned(db, lb) : R.db.seats[i].status = "released"

(* Record i is the only active record of the seat and its hold has run out *)
OnlyExpired(i, showtime_id, seat) ==
  /\ ExistingSeats(sess, showtime_id, seat) = {i}
  /\ sess.seats[i].status = "on_hold"
  /\ sess.seats[i].hold_expiry_time < clock

(* C20: when the only active record of a seat is an on_hold record whose
   hold_expiry_time is earlier than now, an availability check for the seat
   and the check of a create_booking for it both find it available and
   commit the expired record released and soft-deleted; the create goes on
   to its inserts, after which the seat is held by the new record.  No sweep
   is involved. *)
C20_ExpiredHoldIsAvailable ==
  [][/\ \A st \in Showtimes, seat \in SeatPositions, i \in DOMAIN sess.seats :
          LET q == Request(st, <<seat>>)
              Gone == db'.seats[i].status = "released" /\ db'.seats[i].is_deleted
          IN OnlyExpired(i, st, seat)
               => /\ \A o \in CheckSeatsAvailability(db, sess, st, <<seat>>, clock) :
                       o.ok /\ o.db.seats[i].status = "released" /\ o.db.seats[i].is_deleted
                  /\ CheckAvailability(st, <<seat>>) => Gone
                  /\ CreateCheck(st, <<seat>>, "ok")
                       => Gone /\ CopiesIn(q, inflight') = CopiesIn(q, inflight) + 1
     /\ \A q \in BagToSet(inflight) :
          CreateInsert(q) =>
            \A k \in DOMAIN q.seats :
              \E j \in DOMAIN db'.seats \ DOMAIN db.seats :
                /\ db'.seats[j].showtime_id = q.showtime_id
                /\ db'.seats[j].seat_row = q.seats[k].row
                /\ db'.seats[j].seat_col = q.seats[k].col
                /\ db'.seats[j].status = "on_hold"
                /\ db'.seats[j].hold_expiry_time > clock]_vars

(* The expired hold of one booking was released and soft-deleted, and the
   same seat is now held by the fresh record of another booking *)
C20_Witness ==
  \E i, j \in DOMAIN db.seats :
    /\ SameSeat(db.seats[i], db.seats[j])
    /\ db.seats[i].booking_id # db.seats[j].booking_id
    /\ db.seats[i].status = "released" /\ db.seats[i].is_deleted
    /\ db.seats[i].hold_expiry_time < clock
    /\ db.bookings[db.seats[i].booking_id].status = "pending"
    /\ db.seats[j].status = "on_hold" /\ ~db.seats[j].is_deleted
    /\ db.seats[j].hold_expiry_time = clock + HoldDurationMinutes
    /\ ExistingSeats(db, db.seats[j].showtime_id,
                     [row |-> db.seats[j].seat_row, col |-> db.seats[j].seat_col]) = {j}

(* A record whose hold has run out *)
HoldPassed(seat) == seat.status = "on_hold" /\ seat.hold_expiry_time < clock

(* C21: no listing returns a seat whose hold_expiry_time has passed as held:
   not get_booked_seats, not get_seat_map (which reports such a seat
   available), not the booking router's get_showtime_seats. *)
C21_ListingsHideExpired ==
  \A st \in Showtimes :
    /\ \A i \in ActiveSeats(sess, st, clock) : ~HoldPassed(sess.seats[i])
    /\ \A p \in SeatPositions :
         ~GetSeatMap(sess, st, clock)[p]
           => \E i \in ExistingSeats(sess, st, p) : ~HoldPassed(sess.seats[i])
    /\ \A i \in GetShowtimeSeats(sess, st) : ~HoldPassed(sess.seats[i])

(* The moments a request may arrive: now, at the latest modelled time, and a
   full hold period after it *)
LaterTimes == {clock, MaxClock, MaxClock + HoldDurationMinutes + 1}

(* The non-deleted seat records with status booked *)
BookedSeats(s) ==
  {i \in DOMAIN s.seats :
     s.seats[i].status = "booked" /\ ~s.seats[i].is_deleted}

(* C22: a seat with status booked never expires, whatever the time: the
   availability check answers unavailable for it and releases nothing, a
   listing returns it, and the expiry sweep does not select it (the sweep
   touches it only by cancelling the booking that owns it). *)
C22_BookedNeverExpires ==
  \A i \in BookedSeats(sess) : \A now \in LaterTimes :
    LET seat == sess.seats[i]
        pos == [row |-> seat.seat_row, col |-> seat.seat_col]
    IN /\ ~IsHoldExpired(seat, now)
       /\ i \notin ExpiredSeats(sess, now)
       /\ i \in ActiveSeats(sess, seat.showtime_id, now)
       /\ GetBookedSeats(db, sess, remote, seat.showtime_id, now).sess.seats[i] = seat
       /\ LET swept == ReleaseExpiredHolds(db, sess, remote, now).sess
          IN \/ swept.seats[i] = seat
             \/ /\ sess.bookings[seat.booking_id].status = "pending"
                /\ swept.bookings[seat.booking_id].status = "cancelled"
       /\ ~GetSeatMap(sess, seat.showtime_id, now)[pos]
       /\ \A o \in CheckSeatsAvailability(db, sess, seat.showtime_id, <<pos>>, now) :
            ~o.ok /\ o.sess.seats[i] = seat

(* The committed bookings and seat records belong together *)
NoOrphans(d) ==
  /\ \A i \in DOMAIN d.seats : d.seats[i].booking_id \in DOMAIN d.bookings
  /\ \A b \in DOMAIN d.bookings : \E i \in DOMAIN d.seats : d.seats[i].booking_id = b

(* C23: create_booking is atomic: a create step that fails (theatre lookup
   404, >= 400 or unreachable, seat conflict, insert error) commits no
   booking and no seat record, a step that commits a booking commits all its
   seats with it, and the committed tables never hold a booking without
   seats or a seat without booking. *)
C23_CreateAtomic ==
  [][/\ NoOrphans(db')
     /\ Len(db'.bookings) \in {Len(db.bookings), Len(db.bookings) + 1}
     /\ Len(db'.bookings) = Len(db.bookings) => Len(db'.seats) = Len(db.seats)
     /\ Len(db'.bookings) > Len(db.bookings) =>
          \E q \in BagToSet(inflight) :
            /\ CreateInsert(q)
            /\ Len(db'.seats) = Len(db.seats) + Len(q.seats)
            /\ \A i \in DOMAIN db'.seats \ DOMAIN db.seats :
                 db'.seats[i].booking_id = Len(db'.bookings)
     /\ inflight' = inflight
          => Len(db'.bookings) = Len(db.bookings) /\ Len(db'.seats) = Len(db.seats)
     /\ \A q \in BagToSet(inflight) :
          CreateInsertFails(q) => db' = db /\ sess' = db]_vars

(* A booking is committed, a second request passed its checks, and its
   insert can fail leaving the committed tables as they are *)
C23_Witness ==
  /\ Len(db.bookings) >= 1
  /\ \E q \in BagToSet(inflight) :
       /\ InsertFailed(db, sess, q.showtime_id).db = db
       /\ Len(InsertFailed(db, sess, q.showtime_id).sess.bookings) = Len(db.bookings)

(* C24: a create request with more than 10 seats is answered with a
   validation error whatever the theatre service would say, and the request
   changes nothing: nothing is persisted, no seat is checked or lazily
   released, no insert is started. *)
C24_TooManySeatsRejected ==
  [][/\ Len(TooManySeats) > MaxSeatsPerBooking
     /\ \A http \in GetOutcomes : CreateRejection(TooManySeats, http) = "validation"
     /\ \A st \in Showtimes, http \in GetOutcomes :
          CreateCheck(st, TooManySeats, http)
            => UNCHANGED <<db, sess, remote, inflight, clock>>]_vars

(* The hold of a seat the oversized request names has run out, so a check of
   its seats would release it; the request is rejected before that *)
C24_Witness ==
  /\ \E i \in DOMAIN db.seats :
       /\ ~db.seats[i].is_deleted
       /\ IsHoldExpired(db.seats[i], clock)
       /\ \E k \in DOMAIN TooManySeats :
            /\ TooManySeats[k].row = db.seats[i].seat_row
            /\ TooManySeats[k].col = db.seats[i].seat_col
  /\ CreateRejection(TooManySeats, "ok") = "validation"

(* The requests that list a seat twice *)
DuplicateRequests ==
  {seats \in SeatRequests : \E j, k \in DOMAIN seats : j # k /\ seats[j] = seats[k]}

(* C25: a create request that lists the same (row, col) twice is answered
   with a validation error and changes nothing, and no booking ever owns two
   non-deleted seat records for the same seat. *)
C25_DuplicateSeatsRejected ==
  [][/\ \A seats \in DuplicateRequests :
          /\ \A http \in GetOutcomes : CreateRejection(seats, http) = "validation"
          /\ \A st \in Showtimes, http \in GetOutcomes :
               CreateCheck(st, seats, http)
                 => UNCHANGED <<db, sess, remote, inflight, clock>>
     /\ \A i, j \in DOMAIN db'.seats :
          (/\ i # j
           /\ db'.seats[i].booking_id = db'.seats[j].booking_id
           /\ ~db'.seats[i].is_deleted
           /\ ~db'.seats[j].is_deleted)
            => ~SameSeat(db'.seats[i], db'.seats[j])]_vars

(* A booking owns two seat records, both non-deleted, while a request that
   names a free seat twice is rejected *)
C25_Witness ==
  /\ \E i, j \in DOMAIN db.seats :
       /\ i # j
       /\ db.seats[i].booking_id = db.seats[j].booking_id
       /\ ~db.seats[i].is_deleted
       /\ ~db.seats[j].is_deleted
  /\ \E seats \in DuplicateRequests :
       /\ ExistingSeats(sess, 1, seats[1]) = {}
       /\ CreateRejection(seats, "ok") = "validation"

(* C26: delete_booking of a non-deleted booking, whatever its status and
   whatever the theatre service answers, succeeds, sets the deleted flag,
   releases every non-deleted seat the booking owns, leaves status and
   payment_id as they were, and touches no other booking, seat or payment. *)
C26_DeleteKeepsStatus ==
  \A b \in DOMAIN sess.bookings : \A http \in HttpOutcomes :
    ~sess.bookings[b].is_deleted =>
      LET R == DeleteBooking(db, sess, remote, b, http)
      IN /\ R.ok
         /\ R.db = R.sess
         /\ R.sess.bookings[b].is_deleted
         /\ R.sess.bookings[b].status = sess.bookings[b].status
         /\ R.sess.bookings[b].payment_id = sess.bookings[b].payment_id
         /\ \A c \in DOMAIN sess.bookings \ {b} : R.sess.bookings[c] = sess.bookings[c]
         /\ R.sess.payments = sess.payments
         /\ \A i \in DOMAIN sess.seats :
              IF sess.seats[i].booking_id = b /\ ~sess.seats[i].is_deleted
              THEN R.sess.seats[i].status = "released" /\ R.sess.seats[i].is_deleted
              ELSE R.sess.seats[i] = sess.seats[i]

(* A confirmed booking with a payment and a booked seat, about to be deleted *)
C26_Witness ==
  \E b \in DOMAIN sess.bookings :
    /\ ~sess.bookings[b].is_deleted
    /\ sess.bookings[b].status = "confirmed"
    /\ sess.bookings[b].payment_id # NoPayment
    /\ \E i \in DOMAIN sess.seats :
         /\ sess.seats[i].booking_id = b
         /\ sess.seats[i].status = "booked"
         /\ ~sess.seats[i].is_deleted
    /\ DeleteBooking(db, sess, remote, b, "error").sess.bookings[b].is_deleted

(* C27: after a successful delete_booking of a booking whose linked payment
   is completed, that payment is refunded. *)
C27_DeleteRefunds ==
  \A b \in DOMAIN sess.bookings : \A http \in HttpOutcomes :
    LET p == sess.bookings[b].payment_id
        R == DeleteBooking(db, sess, remote, b, http)
    IN (/\ ~sess.bookings[b].is_deleted
        /\ GetPayment(sess, p)
        /\ sess.payments[p].status = "completed"
        /\ R.ok)
         => R.db.payments[p].status = "refunded"

(* The non-deleted on_hold seat records of a booking *)
HoldsOf(s, b) ==
  {i \in DOMAIN s.seats :
     /\ s.seats[i].booking_id = b
     /\ s.seats[i].status = "on_hold"
     /\ ~s.seats[i].is_deleted}

(* C28: extend_seat_hold(booking_id, m) sets hold_expiry_time to now + m on
   every non-deleted on_hold seat of the booking and changes nothing else of
   any seat, booking or payment; with no such seat it fails with the
   no-active-hold error and changes nothing. *)
C28_ExtendSetsExpiryFromNow ==
  \A b \in BookingIds : \A m \in ExtendMinutes :
    LET R == ExtendSeatHold(db, sess, remote, b, m, clock)
    IN IF HoldsOf(sess, b) = {}
       THEN ~R.ok /\ R.msg = "no_active_hold" /\ R.sess = sess /\ R.db = db
       ELSE /\ R.ok
            /\ R.db = R.sess
            /\ R.sess.bookings = sess.bookings
            /\ R.sess.payments = sess.payments
            /\ \A i \in DOMAIN sess.seats :
                 IF i \in HoldsOf(sess, b)
                 THEN R.sess.seats[i] =
                        [sess.seats[i] EXCEPT !.hold_expiry_time = clock + m]
                 ELSE R.sess.seats[i] = sess.seats[i]

(* A booking with a hold that ran out and a second booking with a hold of its
   own: extending the first gives its seat a fresh expiry *)
C28_Witness ==
  \E b, c \in DOMAIN sess.bookings :
    /\ b # c
    /\ HoldsOf(sess, c) # {}
    /\ \E i \in HoldsOf(sess, b) :
         /\ sess.seats[i].hold_expiry_time < clock
         /\ \E m \in ExtendMinutes :
              ExtendSeatHold(db, sess, remote, b, m, clock).sess.seats[i].hold_expiry_time
                = clock + m

(* C29: a booking enters failed only from pending: fail_booking on a
   confirmed or cancelled booking, called directly, through update_booking
   with status failed or through fail_payment, is rejected and leaves the
   booking's status and seats unchanged. *)
C29_FailedOnlyFromPending ==
  [][/\ \A b \in DOMAIN db.bookings :
          (db'.bookings[b].status = "failed" /\ db.bookings[b].status # "failed")
            => db.bookings[b].status = "pending"
     /\ \A b \in DOMAIN sess.bookings : \A http \in HttpOutcomes :
          (GetBooking(sess, b) /\ sess.bookings[b].status \in {"confirmed", "cancelled"})
            => LET R == FailBooking(db, sess, remote, b, http)
               IN ~R.ok /\ R.sess.bookings[b] = sess.bookings[b] /\ R.sess.seats = sess.seats]_vars

(* C30: the background payment task publishes the booking-confirmed event
   only when its update_booking reported success, and then the booking is
   committed as confirmed; a task whose confirmation failed publishes
   nothing; and a failure while enriching or publishing leaves exactly what
   the confirmation committed: the booking confirmed and the seats it
   confirmed booked. *)
C30_EventOnlyAfterConfirm ==
  [][/\ \A b \in events' \ events :
          /\ b \in tasks
          /\ db'.bookings[b].status = "confirmed"
          /\ ~db'.bookings[b].is_deleted
          /\ db'.bookings[b].payment_id = MockPaymentId(b)
          /\ \A http \in HttpOutcomes :
               LET R == SimulatePaymentProcessing(db, sess, remote, b, http, clock)
               IN db' = R.db => R.ok
     /\ \A b \in tasks \ tasks', http \in HttpOutcomes :
          SimulatePayment(b, http) =>
            LET R == SimulatePaymentProcessing(db, sess, remote, b, http, clock)
            IN /\ ~R.ok => events' = events
               /\ events' \subseteq events \cup {b}
               /\ R.ok => /\ db' = R.db
                          /\ db'.bookings[b].status = "confirmed"
                          /\ sess.bookings[b].status = "pending"
                               => \A i \in SeatsOf(sess, b) :
                                    db'.seats[i].status = "booked"]_vars

(* The task confirmed a booking whose event could not be published: the
   booking is confirmed with its mock payment, a seat is booked, no event *)
C30_Witness ==
  \E b \in DOMAIN db.bookings :
    /\ b \notin tasks
    /\ b \notin events
    /\ db.bookings[b].status = "confirmed"
    /\ db.bookings[b].payment_id = MockPaymentId(b)
    /\ \E i \in DOMAIN db.seats :
         db.seats[i].booking_id = b /\ db.seats[i].status = "booked"

(* C31: a failed update_booking leaves the booking unchanged: the payment_id
   it staged is not committed by the call and does not stay in the session,
   where the commit of a later operation would persist it. *)
C31_FailedUpdateStagesNothing ==
  \A b \in DOMAIN sess.bookings, status \in BookingStatusInputs,
     p \in PaymentIds \cup {NoPayment}, http \in HttpOutcomes :
    LET R == UpdateBooking(db, sess, remote, b, status, p, http, clock)
    IN (GetBooking(sess, b) /\ ~R.ok)
         => /\ R.db.bookings[b] = db.bookings[b]
            /\ R.sess.bookings[b].payment_id
                 \in {sess.bookings[b].payment_id, db.bookings[b].payment_id}

(* C32: extending a hold never shortens it: after a successful
   extend_seat_hold the hold_expiry_time of every on_hold seat of the booking
   is not earlier than it was before the call. *)
C32_ExtendNeverShortens ==
  \A b \in BookingIds : \A m \in ExtendMinutes :
    LET R == ExtendSeatHold(db, sess, remote, b, m, clock)
    IN R.ok => \A i \in HoldsOf(sess, b) :
                 R.sess.seats[i].hold_expiry_time >= sess.seats[i].hold_expiry_time

(* C33: the payment task scheduled for a created booking eventually runs to
   its end; when it runs on a booking that is still pending and non-deleted
   and the theatre service accepts the increment, the booking is committed
   as confirmed, linked to the completed payment 999000 + booking_id, with
   all its seats booked; on a booking that is no longer pending it changes
   neither the status nor the seats. *)
C33_TaskConfirmsPending ==
  /\ \A b \in BookingIds : (b \in tasks) ~> (b \notin tasks)
  /\ [][\A b \in tasks \ tasks' :
          /\ (/\ GetBooking(sess, b)
              /\ sess.bookings[b].status = "pending"
              /\ SimulatePayment(b, "ok"))
               => /\ db'.bookings[b].status = "confirmed"
                  /\ db'.bookings[b].payment_id = MockPaymentId(b)
                  /\ PaymentVerified(db', MockPaymentId(b))
                  /\ \A i \in SeatsOf(sess, b) : db'.seats[i].status = "booked"
          /\ sess.bookings[b].status # "pending"
               => /\ sess'.bookings[b].status = sess.bookings[b].status
                  /\ sess'.seats = sess.seats]_vars

(* The task of a pending booking with two held seats has run with the
   theatre service accepting: confirmed, mock payment, both seats booked *)
C33_Witness ==
  \E b \in DOMAIN db.bookings :
    /\ b \notin tasks
    /\ db.bookings[b].status = "confirmed"
    /\ db.bookings[b].payment_id = MockPaymentId(b)
    /\ PaymentVerified(db, MockPaymentId(b))
    /\ Cardinality({i \in DOMAIN db.seats :
                      db.seats[i].booking_id = b /\ db.seats[i].status = "booked"}) = 2
    /\ remote[db.bookings[b].showtime_id] = 2

(* The bookings that own a seat the sweep selects *)
SweptBookings(s, now) == {s.seats[i].booking_id : i \in ExpiredSeats(s, now)}

(* C34: after release_expired_holds no non-deleted on_hold seat has a
   hold_expiry_time earlier than the time the sweep read; every pending
   booking that owned such a seat is cancelled with all its seats released;
   a booking that is not pending keeps its status; nothing is sent to the
   theatre service. *)
C34_SweepReleasesAndCancels ==
  LET R == ReleaseExpiredHolds(db, sess, remote, clock)
  IN /\ R.db = R.sess
     /\ ExpiredSeats(R.sess, clock) = {}
     /\ \A b \in SweptBookings(sess, clock) :
          sess.bookings[b].status = "pending"
            => /\ R.sess.bookings[b].status = "cancelled"
               /\ \A i \in SeatsOf(sess, b) :
                    R.sess.seats[i].status = "released" /\ R.sess.seats[i].is_deleted
     /\ \A b \in DOMAIN sess.bookings :
          sess.bookings[b].status # "pending"
            => R.sess.bookings[b].status = sess.bookings[b].status
     /\ ~R.post.made
     /\ R.remote = remote

(* A pending booking with an expired hold next to a confirmed booking *)
C34_Witness ==
  /\ \E b \in SweptBookings(sess, clock) : sess.bookings[b].status = "pending"
  /\ \E c \in DOMAIN sess.bookings : sess.bookings[c].status = "confirmed"
  /\ ExpiredSeats(ReleaseExpiredHolds(db, sess, remote, clock).sess, clock) = {}

(* C35: a booking is never confirmed without seats: whenever confirm_booking
   succeeds the booking owns at least one non-deleted seat, every such seat
   becomes booked, and the increment sent to the theatre service is at
   least 1. *)
C35_ConfirmNeedsSeats ==
  \A b \in DOMAIN sess.bookings, p \in DOMAIN sess.payments, http \in HttpOutcomes :
    LET R == ConfirmBooking(db, sess, remote, b, p, http, clock)
    IN R.ok => /\ SeatsOf(sess, b) # {}
               /\ R.post.made /\ R.post.count >= 1
               /\ \A i \in SeatsOf(sess, b) : R.sess.seats[i].status = "booked"

(* The confirm_booking calls of booking b whose increment was accepted and
   whose writes are still to come *)
ConfirmsInFlight(b) ==
  {c \in BagToSet(confirming) : c.booking_id = b}

(* C36: of two confirmations of one pending booking that overlap, the theatre
   service gets the increment once and one call reports success: no
   increment is accepted for a booking while another accepted call for it is
   in flight or has already confirmed it. *)
C36_OneIncrementPerBooking ==
  \A b \in BookingIds :
    /\ \A c \in ConfirmsInFlight(b) :
         CopiesIn(c, confirming) = 1 /\ db.bookings[b].status # "confirmed"
    /\ Cardinality(ConfirmsInFlight(b)) <= 1

(* C37: when a confirm and a cancel of one pending booking overlap, the
   outcome is that of a serial order: once no confirm of the booking is in
   flight, a confirmed booking has no released or soft-deleted seat and a
   cancelled booking has no booked seat. *)
C37_ConfirmCancelSerial ==
  \A b \in DOMAIN db.bookings :
    ConfirmsInFlight(b) = {} =>
      \A i \in DOMAIN db.seats :
        db.seats[i].booking_id = b =>
          /\ db.bookings[b].status = "confirmed"
               => ~db.seats[i].is_deleted /\ db.seats[i].status # "released"
          /\ db.bookings[b].status = "cancelled"
               => db.seats[i].status # "booked"

(* What the booking operations answer for a booking they do not find *)
GoneAnswers == {"booking_not_found", "already_deleted"}

(* C38: after a booking has been soft-deleted no operation changes its
   status, its payment_id or its seats, and confirm, cancel, fail, update,
   delete and create_payment addressed to it answer not-found or
   already-deleted. *)
C38_DeletedIsFrozen ==
  [][\A b \in DOMAIN db.bookings :
       (db.bookings[b].is_deleted /\ sess.bookings[b].is_deleted) =>
         /\ db'.bookings[b] = db.bookings[b]
         /\ sess'.bookings[b] = sess.bookings[b]
         /\ \A i \in DOMAIN db.seats :
              db.seats[i].booking_id = b
                => db'.seats[i] = db.seats[i] /\ sess'.seats[i] = sess.seats[i]
         /\ \A http \in HttpOutcomes :
              /\ \A p \in DOMAIN sess.payments :
                   /\ ~ConfirmBooking(db, sess, remote, b, p, http, clock).ok
                   /\ ConfirmBooking(db, sess, remote, b, p, http, clock).msg \in GoneAnswers
              /\ CancelBooking(db, sess, remote, b, http).msg \in GoneAnswers
              /\ FailBooking(db, sess, remote, b, http).msg \in GoneAnswers
              /\ DeleteBooking(db, sess, remote, b, http).msg \in GoneAnswers
              /\ \A status \in BookingStatusInputs, p \in PaymentIds \cup {NoPayment} :
                   UpdateBooking(db, sess, remote, b, status, p, http, clock).msg
                     \in GoneAnswers
         /\ \A amount \in Amounts \ {"none", "nonpositive"} :
              CreatePayment(db, sess, remote, amount, b).msg \in GoneAnswers]_vars

(* C39: a released seat record is terminal: once its status is released no
   operation changes the status back to on_hold or booked, or changes its
   hold_expiry_time. *)
C39_ReleasedIsTerminal ==
  [][\A i \in DOMAIN db.seats :
       db.seats[i].status = "released" =>
         /\ db'.seats[i].status = "released"
         /\ db'.seats[i].hold_expiry_time = db.seats[i].hold_expiry_time]_vars

(* C40: in every reachable state a seat record is soft-deleted if and only
   if its status is released. *)
C40_DeletedIffReleased ==
  \A i \in DOMAIN db.seats :
    db.seats[i].is_deleted <=> db.seats[i].status = "released"

====
